---- MODULE Spec2Model ----
(***************************************************************************)
(* A model of the winres crate: Windows SDK discovery and tool selection   *)
(* (src/src/sdk.rs, get_sdk in src/src/lib.rs) and the resource-file       *)
(* builder and writer WindowsResource (src/src/lib.rs).                    *)
(*                                                                         *)
(* A Rust String is a sequence of one-character strings; a PathBuf is the  *)
(* sequence of its components, each a String.                              *)
(***************************************************************************)
EXTENDS Integers, Sequences, FiniteSets, TLC

VARIABLES
    \* ---- the host the SDK discovery runs on
    reg_status,      \* outcome of spawning `reg query`: "ok", "spawn_failed", "bad_utf8"
    reg_stdout,      \* the lines of the query's standard output
    fs,              \* the set of paths that exist on the filesystem
    env_version,     \* the WindowsSDKVersion environment variable, or None
    target_arch,     \* what Arch::arch_for_cfg_target() returns, or None
    \* ---- the latest discovery call and what it returned
    called,
    result,
    \* ---- the resource being built
    res,                 \* the WindowsResource
    rc_out,              \* what the latest call wrote to the resource file, if it wrote
    manifest_calls,      \* the latest two calls of set_manifest and set_manifest_file
    icon_calls,          \* the latest icon setter called, its path, and the latest id passed
    \* ---- a call of escape_string
    esc_in,              \* the string passed
    esc_out,             \* the string returned, or None before the call
    \* ---- a run of the build script: new(), setters, compile()
    target_env,          \* cfg target_env of the build: "msvc", "gnu" or "other"
    out_dir,             \* the OUT_DIR environment variable, or None
    pc,                  \* where the build script is
    ip,                  \* the next step of compile_with_toolkit
    exit_status,         \* the exit status of the latest child process, or None
    effects,             \* files written, processes started and lines printed, in order
    compile_result       \* what compile() returned

sdk_vars ==
    <<reg_status, reg_stdout, fs, env_version, target_arch, called, result>>

rc_vars ==
    <<res, rc_out, manifest_calls, icon_calls>>

esc_vars ==
    <<esc_in, esc_out>>

cc_vars ==
    <<target_env, out_dir, pc, ip, exit_status, effects, compile_result>>

\* what the discovery leaves alone
not_sdk_vars ==
    <<rc_vars, esc_vars, cc_vars>>

\* what the builder leaves alone
not_rc_vars ==
    <<sdk_vars, esc_vars, cc_vars>>

\* Option<T>: None is the empty tuple, Some(x) the one-element tuple.
None ==
    <<>>

Some(x) ==
    <<x>>

is_some(o) ==
    o # <<>>

unwrap(o) ==
    o[1]

\* ------------------------------------------------------------------ strings

INSTALLED_ROOTS_KEY ==
    <<"H", "K", "E", "Y", "_", "L", "O", "C", "A", "L", "_", "M", "A", "C",
      "H", "I", "N", "E", "\\", "S", "O", "F", "T", "W", "A", "R", "E",
      "\\", "M", "i", "c", "r", "o", "s", "o", "f", "t", "\\", "W", "i",
      "n", "d", "o", "w", "s", " ", "K", "i", "t", "s", "\\", "I", "n",
      "s", "t", "a", "l", "l", "e", "d", " ", "R", "o", "o", "t", "s">>

KITS_ROOT_PREFIX ==
    <<"K", "i", "t", "s", "R", "o", "o", "t">>

REG_SZ ==
    <<"R", "E", "G", "_", "S", "Z">>

RC_EXE ==
    <<"r", "c", ".", "e", "x", "e">>

BIN ==
    <<"b", "i", "n">>

INCLUDE ==
    <<"I", "n", "c", "l", "u", "d", "e">>

LIB ==
    <<"L", "i", "b">>


\* char::is_whitespace, for the characters that occur
is_whitespace(c) ==
    c \in {" ", "\t", "\r", "\n"}

\* str::starts_with
starts_with(s, prefix) ==
    /\ Len(s) >= Len(prefix)
    /\ SubSeq(s, 1, Len(prefix)) = prefix

\* str::find(pattern): the 0-based offset of the first match, or None
find(s, pat) ==
    LET hits == {i \in 0..(Len(s) - Len(pat)) : SubSeq(s, i + 1, i + Len(pat)) = pat}
    IN  IF hits = {} THEN None
        ELSE Some(CHOOSE i \in hits : \A j \in hits : i <= j)

\* Iterator::skip(n) over the characters
skip(s, n) ==
    IF n >= Len(s) THEN <<>> ELSE SubSeq(s, n + 1, Len(s))

\* Iterator::skip_while(|c| c.is_whitespace())
RECURSIVE skip_while_whitespace(_)
skip_while_whitespace(s) ==
    IF s # <<>> /\ is_whitespace(Head(s)) THEN skip_while_whitespace(Tail(s)) ELSE s

\* Iterator::take_while(|c| !c.is_whitespace())
RECURSIVE take_while_not_whitespace(_)
take_while_not_whitespace(s) ==
    IF s # <<>> /\ ~is_whitespace(Head(s))
    THEN <<Head(s)>> \o take_while_not_whitespace(Tail(s))
    ELSE <<>>

RECURSIVE trim_end(_)
trim_end(s) ==
    IF s # <<>> /\ is_whitespace(s[Len(s)]) THEN trim_end(SubSeq(s, 1, Len(s) - 1)) ELSE s

\* str::trim
trim(s) ==
    trim_end(skip_while_whitespace(s))

\* ------------------------------------------------- sdk.rs: InstalledRoots::new

Ok(v) ==
    [tag |-> "Ok", value |-> v]

Err(e) ==
    [tag |-> "Err", error |-> e]

\* the thread panicked: no value is returned to the caller
Panic(msg) ==
    [tag |-> "Panic", message |-> msg]

is_ok(r) ==
    r.tag = "Ok"

\* One pass of the loop body over a trimmed line: the state is the two vectors
\* being built, or a panic.
parse_line(acc, raw) ==
    LET line == trim(raw) IN
    IF acc.tag = "Panic" THEN acc
    ELSE IF starts_with(line, KITS_ROOT_PREFIX) THEN
        LET kits_root == take_while_not_whitespace(line)
            at == find(line, REG_SZ)
        IN  IF ~is_some(at) THEN Panic("parse line: missing REG_SZ")
            ELSE LET root == <<skip_while_whitespace(skip(line, unwrap(at) + Len(REG_SZ)))>>
                 IN  [acc EXCEPT !.roots = Append(@, <<kits_root, root>>)]
    ELSE IF starts_with(line, INSTALLED_ROOTS_KEY) THEN
        LET sdk_version == skip(line, Len(INSTALLED_ROOTS_KEY) + 1)
        IN  IF sdk_version # <<>> THEN [acc EXCEPT !.sdks = Append(@, sdk_version)]
            ELSE acc
    ELSE acc

RECURSIVE parse_lines(_, _)
parse_lines(acc, lines) ==
    IF lines = <<>> THEN acc
    ELSE parse_lines(parse_line(acc, Head(lines)), Tail(lines))

\* the end of InstalledRoots::new without the check for roots
InstalledRoots_result_unchecked(roots, sdks) ==
    Ok([kits_roots |-> roots, sdk_versions |-> sdks])

\* the end of InstalledRoots::new: an inventory without roots is an error
InstalledRoots_result(roots, sdks) ==
    IF roots # <<>>
    THEN Ok([kits_roots |-> roots, sdk_versions |-> sdks])
    ELSE Err([kind |-> "Other", message |-> "no installed root found"])

InstalledRoots_new_of(status, stdout) ==
    IF status = "spawn_failed" THEN Err([kind |-> "Io", message |-> "spawn"])
    ELSE IF status = "bad_utf8" THEN Err([kind |-> "Other", message |-> "utf8"])
    ELSE LET p == parse_lines([tag |-> "Parsing", roots |-> <<>>, sdks |-> <<>>], stdout)
         IN  IF p.tag = "Panic" THEN p ELSE InstalledRoots_result(p.roots, p.sdks)

\* --------------------------------------------------------------- sdk.rs: Sdk

\* the printable ASCII characters in code order: 0x20..0x5F and 0x61..0x7E
ASCII_LOW ==
    <<" ", "!", "\"", "#", "$", "%", "&", "'", "(", ")", "*", "+", ",",
      "-", ".", "/", "0", "1", "2", "3", "4", "5", "6", "7", "8", "9", ":",
      ";", "<", "=", ">", "?", "@", "A", "B", "C", "D", "E", "F", "G", "H",
      "I", "J", "K", "L", "M", "N", "O", "P", "Q", "R", "S", "T", "U", "V",
      "W", "X", "Y", "Z", "[", "\\", "]", "^", "_">>

ASCII_HIGH ==
    <<"a", "b", "c", "d", "e", "f", "g", "h", "i", "j", "k", "l", "m", "n",
      "o", "p", "q", "r", "s", "t", "u", "v", "w", "x", "y", "z", "{", "|",
      "}", "~">>

\* the byte value of every printable character
OrdTable ==
    [c \in {ASCII_LOW[i] : i \in 1..Len(ASCII_LOW)}
            \cup {ASCII_HIGH[i] : i \in 1..Len(ASCII_HIGH)} |->
        IF \E i \in 1..Len(ASCII_LOW) : ASCII_LOW[i] = c
        THEN 31 + (CHOOSE i \in 1..Len(ASCII_LOW) : ASCII_LOW[i] = c)
        ELSE 96 + (CHOOSE i \in 1..Len(ASCII_HIGH) : ASCII_HIGH[i] = c)]

\* the byte value of a character
Ord(c) ==
    OrdTable[c]

\* <String as Ord>::cmp: byte-wise lexicographic, a proper prefix is Less
RECURSIVE cmp(_, _)
cmp(a, b) ==
    IF a = <<>> /\ b = <<>> THEN "Equal"
    ELSE IF a = <<>> THEN "Less"
    ELSE IF b = <<>> THEN "Greater"
    ELSE IF Ord(Head(a)) < Ord(Head(b)) THEN "Less"
    ELSE IF Ord(Head(a)) > Ord(Head(b)) THEN "Greater"
    ELSE cmp(Tail(a), Tail(b))

\* enum Arch, in the order load_archs probes it
Archs ==
    <<"Arm", "Arm64", "X86", "X64">>

\* Arch::dirname
dirname(arch) ==
    CASE arch = "Arm" -> <<"a", "r", "m">>
      [] arch = "Arm64" -> <<"a", "r", "m", "6", "4">>
      [] arch = "X64" -> <<"x", "6", "4">>
      [] arch = "X86" -> <<"x", "8", "6">>

\* Path::join with a relative component
join(path, component) ==
    Append(path, component)

\* Path::exists
exists(path) ==
    path \in fs

\* Sdk::exists
Sdk_exists(version, installed_root) ==
    exists(join(join(installed_root, BIN), version))

bin_root_dir(sdk) ==
    join(join(sdk.installed_root, BIN), sdk.version)

include_root_dir(sdk) ==
    join(join(sdk.installed_root, INCLUDE), sdk.version)

\* Path::read_dir: the entries of a directory that exists, an error otherwise
read_dir(dir) ==
    IF dir \in fs
    THEN Ok({p \in fs : Len(p) = Len(dir) + 1 /\ SubSeq(p, 1, Len(dir)) = dir})
    ELSE Err([kind |-> "NotFound", message |-> "read_dir"])

\* Sdk::load_include_dirs: file name -> path of every entry of the include root
load_include_dirs(sdk) ==
    LET listing == read_dir(include_root_dir(sdk)) IN
    IF ~is_ok(listing) THEN listing
    ELSE Ok([name \in {p[Len(p)] : p \in listing.value} |->
                join(include_root_dir(sdk), name)])

\* SdkArch::new
SdkArch_new(bin_dir) ==
    [bin_dir |-> bin_dir, include_dirs |-> <<>>, lib_dirs |-> <<>>]

\* Sdk::load_arch, on Ok(sdk)
load_arch(sdk, arch) ==
    LET bin_dir == join(bin_root_dir(sdk), dirname(arch))
        dirs == load_include_dirs(sdk)
    IN  IF ~is_ok(dirs) THEN dirs
        ELSE Ok([sdk EXCEPT !.sdk_archs =
                    [a \in DOMAIN @ \cup {arch} |->
                        IF a = arch
                        THEN [SdkArch_new(bin_dir) EXCEPT !.include_dirs = dirs.value]
                        ELSE @[a]]])

\* Sdk::load_archs: the four architectures in turn, `?` after each
RECURSIVE load_archs(_, _)
load_archs(r, archs) ==
    IF archs = <<>> \/ ~is_ok(r) THEN r
    ELSE load_archs(load_arch(r.value, Head(archs)), Tail(archs))

\* Sdk::new
Sdk_new(version, installed_root) ==
    load_archs(Ok([version |-> version, installed_root |-> installed_root,
                   sdk_archs |-> <<>>]),
               Archs)

\* Sdk::tool without the check that the executable exists
Sdk_tool_unchecked(sdk, name, arch) ==
    IF arch \in DOMAIN sdk.sdk_archs THEN
        LET sdk_arch == sdk.sdk_archs[arch]
            path == join(sdk_arch.bin_dir, name)
        IN  Some([sdk_version |-> sdk.version,
                  installed_root |-> sdk.installed_root,
                  arch |-> arch,
                  path |-> path,
                  include_dirs |-> sdk_arch.include_dirs,
                  lib_dirs |-> sdk_arch.lib_dirs,
                  bin_dir |-> sdk_arch.bin_dir])
    ELSE None

\* Sdk::tool
Sdk_tool(sdk, name, arch) ==
    IF arch \in DOMAIN sdk.sdk_archs THEN
        LET sdk_arch == sdk.sdk_archs[arch]
            path == join(sdk_arch.bin_dir, name)
        IN  IF exists(path)
            THEN Some([sdk_version |-> sdk.version,
                       installed_root |-> sdk.installed_root,
                       arch |-> arch,
                       path |-> path,
                       include_dirs |-> sdk_arch.include_dirs,
                       lib_dirs |-> sdk_arch.lib_dirs,
                       bin_dir |-> sdk_arch.bin_dir])
            ELSE None
    ELSE None


\* ------------------------------------------------------------ sdk.rs: System

\* System::load_sdks, the inner loop over the recorded versions of one root
RECURSIVE load_sdks_versions(_, _, _)
load_sdks_versions(r, root_path, versions) ==
    IF versions = <<>> \/ ~is_ok(r) THEN r
    ELSE LET sdk_version == Head(versions)
             next == IF Sdk_exists(sdk_version, root_path)
                     THEN LET sdk == Sdk_new(sdk_version, root_path)
                          IN  IF is_ok(sdk) THEN Ok(Append(r.value, sdk.value)) ELSE sdk
                     ELSE r
         IN  load_sdks_versions(next, root_path, Tail(versions))

\* System::load_sdks, the outer loop over the installation roots
RECURSIVE load_sdks(_, _, _)
load_sdks(r, kits_roots, versions) ==
    IF kits_roots = <<>> \/ ~is_ok(r) THEN r
    ELSE load_sdks(load_sdks_versions(r, Head(kits_roots)[2], versions),
                   Tail(kits_roots), versions)

\* System::new on the output of the registry query
System_new_of(status, stdout) ==
    LET installed_roots == InstalledRoots_new_of(status, stdout) IN
    IF ~is_ok(installed_roots) THEN installed_roots
    ELSE LET sdks == load_sdks(Ok(<<>>), installed_roots.value.kits_roots,
                               installed_roots.value.sdk_versions)
         IN  IF ~is_ok(sdks) THEN sdks
             ELSE Ok([installed_roots |-> installed_roots.value, sdks |-> sdks.value])

\* ------------------------------------------------------------ lib.rs: get_sdk

\* system.sdks.iter().filter_map(|sdk| sdk.tool("rc.exe", arch)).collect()
RECURSIVE filter_map_tool(_, _)
filter_map_tool(sdks, arch) ==
    IF sdks = <<>> THEN <<>>
    ELSE Sdk_tool(Head(sdks), RC_EXE, arch) \o filter_map_tool(Tail(sdks), arch)

\* the comparison get_sdk hands to max_by
cmp_sdk_version(a, b) ==
    cmp(a.sdk_version, b.sdk_version)

\* Iterator::max_by: the last of the greatest elements, None when empty
RECURSIVE max_by_fold(_, _)
max_by_fold(best, rest) ==
    IF rest = <<>> THEN best
    ELSE max_by_fold(IF cmp_sdk_version(best, Head(rest)) = "Greater" THEN best
                     ELSE Head(rest),
                     Tail(rest))

max_by(tools) ==
    IF tools = <<>> THEN None ELSE Some(max_by_fold(Head(tools), Tail(tools)))

\* tools.iter().find(|tool| env_version == Some(tool.sdk_version))
RECURSIVE find_version(_, _)
find_version(tools, ev) ==
    IF tools = <<>> THEN None
    ELSE IF is_some(ev) /\ unwrap(ev) = Head(tools).sdk_version THEN Some(Head(tools))
    ELSE find_version(Tail(tools), ev)

\* or_else with the fallback taking precedence
or_else_fallback_first(o, other) ==
    IF is_some(other) THEN other ELSE o

\* Option::or_else
or_else(o, other) ==
    IF is_some(o) THEN o ELSE other

\* get_sdk once System::new has returned `system`: the architecture, the
\* candidate tools, and the choice among them
resolve_tool(system, ev, arch) ==
    IF ~is_some(arch)
    THEN Err([kind |-> "Other", message |-> "unsupported target arch"])
    ELSE LET tools == filter_map_tool(system.sdks, unwrap(arch))
             max_version == max_by(tools)
             tool == or_else(find_version(tools, ev), max_version)
         IN  IF is_some(tool) THEN Ok(unwrap(tool))
             ELSE Err([kind |-> "Other", message |-> "no rc.exe tool found",
                       arch |-> dirname(unwrap(arch)),
                       installed_roots |-> system.installed_roots])

\* get_sdk on the output of the registry query
get_sdk_of(status, stdout, ev, arch) ==
    LET system == System_new_of(status, stdout) IN
    IF ~is_ok(system) THEN system
    ELSE resolve_tool(system.value, ev, arch)

\* ------------------------------------------------- the hosts that are explored

ROOT_A ==
    <<"C", ":", "\\", "K", "i", "t", "s", "\\", "1", "0", "\\">>

ROOT_B ==
    <<"D", ":", "\\", "K", "i", "t", "s", "\\", "1", "0", "\\">>

V_10_0_3 ==
    <<"1", "0", ".", "0", ".", "3">>

V_10_0_5 ==
    <<"1", "0", ".", "0", ".", "5">>

V_10_0_10 ==
    <<"1", "0", ".", "0", ".", "1", "0">>

LINE_ROOT_A ==
    <<" ", " ", " ", " ", "K", "i", "t", "s", "R", "o", "o", "t", "1", "0",
      " ", " ", " ", " ", "R", "E", "G", "_", "S", "Z", " ", " ", " ", " ",
      "C", ":", "\\", "K", "i", "t", "s", "\\", "1", "0", "\\">>

LINE_ROOT_B ==
    <<" ", " ", " ", " ", "K", "i", "t", "s", "R", "o", "o", "t", "8", "1",
      " ", " ", " ", " ", "R", "E", "G", "_", "S", "Z", " ", " ", " ", " ",
      "D", ":", "\\", "K", "i", "t", "s", "\\", "1", "0", "\\">>

LINE_NO_MARKER ==
    <<" ", " ", " ", " ", "K", "i", "t", "s", "R", "o", "o", "t", "T", "e",
      "s", "t", " ", " ", " ", " ", "R", "E", "G", "_", "E", "X", "P", "A",
      "N", "D", "_", "S", "Z", " ", " ", " ", " ", "%", "S", "D", "K", "%">>

LINE_OTHER ==
    <<"E", "n", "d", " ", "o", "f", " ", "s", "e", "a", "r", "c", "h", ":",
      " ", "5", " ", "m", "a", "t", "c", "h", "(", "e", "s", ")", " ", "f",
      "o", "u", "n", "d", ".">>

UM ==
    <<"u", "m">>

SHARED ==
    <<"s", "h", "a", "r", "e", "d">>

\* the most SDKs installed on one host
MaxInstalled ==
    3

\* the most lines of an arbitrary registry output
MaxLines ==
    3

Roots ==
    {ROOT_A, ROOT_B}

Versions ==
    {V_10_0_3, V_10_0_5, V_10_0_10}

\* the subkey line `reg query` prints for a version
LINE_VERSION(v) ==
    INSTALLED_ROOTS_KEY \o <<"\\">> \o v

\* an SDK on disk: complete, without the x64 directory, or without Include/<version>
Kinds ==
    {"full", "x86only", "noInclude"}

ArchFiles(bin, arch) ==
    {join(bin, dirname(arch)), join(join(bin, dirname(arch)), RC_EXE)}

SdkFiles(root, v, kind) ==
    LET bin == <<root, BIN, v>>
        inc == <<root, INCLUDE, v>>
    IN  {<<root>>, <<root, BIN>>, bin} \cup ArchFiles(bin, "X86")
        \cup (IF kind = "x86only" THEN {} ELSE ArchFiles(bin, "X64"))
        \cup (IF kind = "noInclude" THEN {}
              ELSE {<<root, INCLUDE>>, inc, join(inc, UM), join(inc, SHARED)})

\* the (root, version) pairs an SDK may be installed at: every version under the
\* first root, and one of them under the second root as well
Installable ==
    ({ROOT_A} \X Versions) \cup {<<ROOT_B, V_10_0_5>>}

\* which of them are installed, and how
Installations ==
    UNION {[S -> Kinds] : S \in {T \in SUBSET Installable :
                                    Cardinality(T) <= MaxInstalled}}

FsOf(inst) ==
    UNION {SdkFiles(p[1], p[2], inst[p]) : p \in DOMAIN inst}

\* the sequences over S without repetition
InjSeqs(S) ==
    UNION {{s \in [1..n -> S] : \A i, j \in 1..n : s[i] = s[j] => i = j} :
            n \in 0..Cardinality(S)}

\* the sequences over S of at most n elements
BoundedSeqs(S, n) ==
    UNION {[1..k -> S] : k \in 0..n}

\* the output of `reg query` on a healthy host: the key, its root values in some
\* order, then its version subkeys in some order
HealthyOutputs ==
    {<<INSTALLED_ROOTS_KEY>> \o rs \o vs :
        rs \in InjSeqs({LINE_ROOT_A, LINE_ROOT_B}) \ {<<>>},
        vs \in {s \in InjSeqs({LINE_VERSION(v) : v \in Versions}) :
                    Len(s) = Cardinality(Versions)}}

RegLines ==
    {INSTALLED_ROOTS_KEY, LINE_ROOT_A, LINE_ROOT_B, LINE_NO_MARKER, LINE_OTHER, <<>>}
        \cup {LINE_VERSION(v) : v \in {V_10_0_3, V_10_0_5}}

TargetArchs ==
    {Some("X64"), Some("X86"), None}

EnvVersions ==
    {None, Some(V_10_0_3)}

NotCalled ==
    [tag |-> "NotCalled"]

InitSdk ==
    /\ reg_status = "ok"
    /\ reg_stdout \in HealthyOutputs
    /\ \E inst \in Installations : fs = FsOf(inst)
    /\ env_version \in EnvVersions
    /\ target_arch \in TargetArchs
    /\ called = "none"
    /\ result = NotCalled

InitParse ==
    /\ \/ reg_status = "ok" /\ reg_stdout \in BoundedSeqs(RegLines, MaxLines)
       \/ reg_status \in {"spawn_failed", "bad_utf8"} /\ reg_stdout = <<>>
    /\ fs \in {{}, FsOf([p \in Roots \X {V_10_0_3} |-> "full"])}
    /\ env_version = None
    /\ target_arch = Some("X64")
    /\ called = "none"
    /\ result = NotCalled

\* ------------------------------------------------------------------ actions

InstalledRoots_new ==
    /\ called' = "InstalledRoots::new"
    /\ result' = InstalledRoots_new_of(reg_status, reg_stdout)
    /\ UNCHANGED <<reg_status, reg_stdout, fs, env_version, target_arch, not_sdk_vars>>

System_new ==
    /\ called' = "System::new"
    /\ result' = System_new_of(reg_status, reg_stdout)
    /\ UNCHANGED <<reg_status, reg_stdout, fs, env_version, target_arch, not_sdk_vars>>

get_sdk ==
    /\ called' = "get_sdk"
    /\ result' = get_sdk_of(reg_status, reg_stdout, env_version, target_arch)
    /\ UNCHANGED <<reg_status, reg_stdout, fs, env_version, target_arch, not_sdk_vars>>

NextSdk ==
    \/ InstalledRoots_new
    \/ System_new
    \/ get_sdk


\* ======================================================= lib.rs: WindowsResource

\* ------------------------------------------------------------ number formatting

\* a u64 is the tuple of its four 16-bit words, most significant first
Word ==
    65536

U64(w3, w2, w1, w0) ==
    <<w3, w2, w1, w0>>

\* n as u64, for a number parsed from a decimal string
u64_of(n) ==
    U64(0, 0, (n \div Word) % Word, n % Word)

\* v << shift, for the shifts 48, 32 and 16: the bits shifted out are dropped
shl(v, shift) ==
    LET k == shift \div 16
    IN  [i \in 1..4 |-> IF i + k <= 4 THEN v[i + k] ELSE 0]

\* a | b of two 16-bit words
RECURSIVE bitor_word(_, _)
bitor_word(a, b) ==
    IF a = 0 THEN b
    ELSE IF b = 0 THEN a
    ELSE 2 * bitor_word(a \div 2, b \div 2)
            + (IF a % 2 = 1 \/ b % 2 = 1 THEN 1 ELSE 0)

\* a | b of two u64
bitor(a, b) ==
    [i \in 1..4 |-> bitor_word(a[i], b[i])]

\* the words of a u64 taken from the wrong end
shr_as_u16_low_first(v, shift) ==
    v[1 + (shift \div 16)]

\* (v >> shift) as u16, for the shifts 48, 32, 16 and 0
shr_as_u16(v, shift) ==
    v[4 - (shift \div 16)]

HexDigits ==
    <<"0", "1", "2", "3", "4", "5", "6", "7", "8", "9", "a", "b", "c", "d", "e", "f">>

DecDigits ==
    <<"0", "1", "2", "3", "4", "5", "6", "7", "8", "9">>

\* the digits of a natural number in a base, most significant first
RECURSIVE digits(_, _, _)
digits(n, base, table) ==
    IF n < base THEN <<table[n + 1]>>
    ELSE Append(digits(n \div base, base, table), table[(n % base) + 1])

\* format!("{}", n) of an integer that fits a machine word
fmt_dec(n) ==
    digits(n, 10, DecDigits)

\* format!("{:x}", n)
fmt_hex(n) ==
    digits(n, 16, HexDigits)

\* format!("{:04x}", n)
fmt_04x(n) ==
    LET d == fmt_hex(n)
    IN  [i \in 1..(IF Len(d) < 4 THEN 4 - Len(d) ELSE 0) |-> "0"] \o d

RECURSIVE strip_zeros(_)
strip_zeros(d) ==
    IF Len(d) > 1 /\ Head(d) = "0" THEN strip_zeros(Tail(d)) ELSE d

\* format!("{:#x}", v) of a u64
fmt_u64_hex(v) ==
    <<"0", "x">> \o strip_zeros(fmt_04x(v[1]) \o fmt_04x(v[2]) \o fmt_04x(v[3]) \o fmt_04x(v[4]))

\* one long division of a u64 by ten: <<quotient, remainder>>
div10(v) ==
    LET c1 == v[1] % 10
        n2 == c1 * Word + v[2]
        c2 == n2 % 10
        n3 == c2 * Word + v[3]
        c3 == n3 % 10
        n4 == c3 * Word + v[4]
    IN  <<U64(v[1] \div 10, n2 \div 10, n3 \div 10, n4 \div 10), n4 % 10>>

\* format!("{}", v) of a u64
RECURSIVE fmt_u64_dec(_)
fmt_u64_dec(v) ==
    LET qr == div10(v)
    IN  IF qr[1] = U64(0, 0, 0, 0) THEN <<DecDigits[qr[2] + 1]>>
        ELSE Append(fmt_u64_dec(qr[1]), DecDigits[qr[2] + 1])

\* ------------------------------------------------------------------ escape_string

\* the match of escape_string with the backslash pushed as it is
escape_char_backslash_kept(chr) ==
    CASE chr = "\"" -> <<"\"", "\"">>
      [] chr = "'" -> <<"\\", "'">>
      [] chr = "\n" -> <<"\\", "n">>
      [] chr = "\t" -> <<"\\", "t">>
      [] chr = "\r" -> <<"\\", "r">>
      [] OTHER -> <<chr>>

escape_char(chr) ==
    CASE chr = "\"" -> <<"\"", "\"">>
      [] chr = "'" -> <<"\\", "'">>
      [] chr = "\\" -> <<"\\", "\\">>
      [] chr = "\n" -> <<"\\", "n">>
      [] chr = "\t" -> <<"\\", "t">>
      [] chr = "\r" -> <<"\\", "r">>
      [] OTHER -> <<chr>>

RECURSIVE escape_string(_)
escape_string(string) ==
    IF string = <<>> THEN <<>>
    ELSE escape_char(Head(string)) \o escape_string(Tail(string))

\* str::lines: the pieces between line feeds, each without a trailing carriage
\* return; a final line feed opens no further line
RECURSIVE split_lines(_, _)
split_lines(s, cur) ==
    IF s = <<>> THEN (IF cur = <<>> THEN <<>> ELSE <<cur>>)
    ELSE IF Head(s) = "\n"
    THEN <<(IF cur # <<>> /\ cur[Len(cur)] = "\r" THEN SubSeq(cur, 1, Len(cur) - 1)
           ELSE cur)>> \o split_lines(Tail(s), <<>>)
    ELSE split_lines(Tail(s), Append(cur, Head(s)))

str_lines(s) ==
    split_lines(s, <<>>)


\* ------------------------------------------------------------ the descriptor

\* enum VersionInfo, in declaration order
VersionInfoFields ==
    <<"FILEVERSION", "PRODUCTVERSION", "FILEOS", "FILETYPE", "FILESUBTYPE",
      "FILEFLAGSMASK", "FILEFLAGS">>

\* format!("{:?}", k) of a VersionInfo
fmt_debug(k) ==
    CASE k = "FILEVERSION" -> <<"F", "I", "L", "E", "V", "E", "R", "S", "I", "O", "N">>
      [] k = "PRODUCTVERSION" -> <<"P", "R", "O", "D", "U", "C", "T", "V", "E", "R", "S", "I", "O", "N">>
      [] k = "FILEOS" -> <<"F", "I", "L", "E", "O", "S">>
      [] k = "FILETYPE" -> <<"F", "I", "L", "E", "T", "Y", "P", "E">>
      [] k = "FILESUBTYPE" -> <<"F", "I", "L", "E", "S", "U", "B", "T", "Y", "P", "E">>
      [] k = "FILEFLAGSMASK" -> <<"F", "I", "L", "E", "F", "L", "A", "G", "S", "M", "A", "S", "K">>
      [] k = "FILEFLAGS" -> <<"F", "I", "L", "E", "F", "L", "A", "G", "S">>

FileVersion ==
    <<"F", "i", "l", "e", "V", "e", "r", "s", "i", "o", "n">>

ProductVersion ==
    <<"P", "r", "o", "d", "u", "c", "t", "V", "e", "r", "s", "i", "o", "n">>

ProductName ==
    <<"P", "r", "o", "d", "u", "c", "t", "N", "a", "m", "e">>

FileDescription ==
    <<"F", "i", "l", "e", "D", "e", "s", "c", "r", "i", "p", "t", "i", "o",
      "n">>

InternalName ==
    <<"I", "n", "t", "e", "r", "n", "a", "l", "N", "a", "m", "e">>

\* HashMap::insert
insert(map, k, v) ==
    [x \in DOMAIN map \cup {k} |-> IF x = k THEN v ELSE map[x]]

EmptyMap ==
    <<>>

\* ------------------------------------------------- HashMap iteration order

\* the keys of a string-keyed map in byte order
RECURSIVE sort_keys(_)
sort_keys(S) ==
    IF S = {} THEN <<>>
    ELSE LET least == CHOOSE k \in S : \A o \in S : cmp(k, o) # "Greater"
         IN  <<least>> \o sort_keys(S \ {least})

rotate(s, r) ==
    [i \in 1..Len(s) |-> s[((i - 1 + r) % Len(s)) + 1]]

reverse(s) ==
    [i \in 1..Len(s) |-> s[Len(s) + 1 - i]]

\* HashMap::iter: the order is fixed by the map's RandomState, drawn when the map
\* is created; the seed picks one of the orders of the keys
iter_order(seed, keys) ==
    LET r == rotate(keys, seed \div 2)
    IN  IF seed % 2 = 1 THEN reverse(r) ELSE r

\* self.version_info.iter()
version_info_iter(self) ==
    iter_order(self.version_info_seed,
               SelectSeq(VersionInfoFields, LAMBDA k : k \in DOMAIN self.version_info))

\* self.properties.iter()
properties_iter(self) ==
    iter_order(self.properties_seed, sort_keys(DOMAIN self.properties))

\* ------------------------------------------------------- write_resource_file

\* the resource type of a manifest
RT_MANIFEST ==
    24

\* the line of one version-info field
version_info_line(k, v) ==
    IF k \in {"FILEVERSION", "PRODUCTVERSION"}
    THEN fmt_debug(k) \o <<" ">> \o fmt_dec(shr_as_u16(v, 48)) \o <<",", " ">>
            \o fmt_dec(shr_as_u16(v, 32)) \o <<",", " ">>
            \o fmt_dec(shr_as_u16(v, 16)) \o <<",", " ">>
            \o fmt_dec(shr_as_u16(v, 0))
    ELSE fmt_debug(k) \o <<" ">> \o fmt_u64_hex(v)

RECURSIVE version_info_lines(_, _)
version_info_lines(self, keys) ==
    IF keys = <<>> THEN <<>>
    ELSE <<version_info_line(Head(keys), self.version_info[Head(keys)])>>
            \o version_info_lines(self, Tail(keys))

VALUE_OPEN ==
    <<"V", "A", "L", "U", "E", " ", "\"">>

VALUE_SEP ==
    <<"\"", ",", " ", "\"">>

\* the line of one string property
value_line(k, v) ==
    VALUE_OPEN \o escape_string(k) \o VALUE_SEP \o escape_string(v) \o <<"\"">>

\* the loop over the properties without the test for an empty value
RECURSIVE value_lines_with_empty(_, _)
value_lines_with_empty(self, keys) ==
    IF keys = <<>> THEN <<>>
    ELSE <<value_line(Head(keys), self.properties[Head(keys)])>>
            \o value_lines_with_empty(self, Tail(keys))

\* for (k, v) in self.properties.iter(): a line for every non-empty value
RECURSIVE value_lines(_, _)
value_lines(self, keys) ==
    IF keys = <<>> THEN <<>>
    ELSE (IF self.properties[Head(keys)] # <<>>
          THEN <<value_line(Head(keys), self.properties[Head(keys)])>>
          ELSE <<>>)
            \o value_lines(self, Tail(keys))

ICON_SEP ==
    <<" ", "I", "C", "O", "N", " ", "\"">>

icon_lines(self) ==
    IF is_some(self.icon)
    THEN LET name_id == IF is_some(self.icon_id) THEN unwrap(self.icon_id) ELSE <<"1">>
         IN  <<escape_string(name_id) \o ICON_SEP \o escape_string(unwrap(self.icon))
                \o <<"\"">>>>
    ELSE <<>>

\* the manifest lines quoted but not escaped
RECURSIVE quoted_lines_unescaped(_)
quoted_lines_unescaped(ls) ==
    IF ls = <<>> THEN <<>>
    ELSE <<<<"\"">> \o trim(Head(ls)) \o <<"\"">>>>
            \o quoted_lines_unescaped(Tail(ls))

\* for line in manf.lines(): the line trimmed, escaped and quoted
RECURSIVE quoted_lines(_)
quoted_lines(ls) ==
    IF ls = <<>> THEN <<>>
    ELSE <<<<"\"">> \o escape_string(trim(Head(ls))) \o <<"\"">>>>
            \o quoted_lines(Tail(ls))

\* " 24", after the resource id
MANIFEST_TYPE ==
    <<" ">> \o fmt_dec(RT_MANIFEST)

manifest_lines(self) ==
    IF "FILETYPE" \in DOMAIN self.version_info THEN
        LET e == fmt_u64_dec(self.version_info["FILETYPE"]) IN
        IF is_some(self.manifest)
        THEN <<e \o MANIFEST_TYPE, <<"{">>>>
                \o quoted_lines(str_lines(unwrap(self.manifest)))
                \o <<<<"}">>>>
        ELSE IF is_some(self.manifest_file)
        THEN <<e \o MANIFEST_TYPE \o <<" ", "\"">>
                \o escape_string(unwrap(self.manifest_file)) \o <<"\"">>>>
        ELSE <<>>
    ELSE <<>>

\* the text write_resource_file writes, as its lines
write_resource_file_text(self) ==
    <<<<"#", "p", "r", "a", "g", "m", "a", " ", "c", "o", "d", "e", "_", "p", "a", "g", "e", "(", "6", "5", "0", "0", "1", ")">>,
      <<"1", " ", "V", "E", "R", "S", "I", "O", "N", "I", "N", "F", "O">>>>
    \o version_info_lines(self, version_info_iter(self))
    \o <<<<"{">>,
          <<"B", "L", "O", "C", "K", " ", "\"", "S", "t", "r", "i", "n", "g", "F", "i", "l", "e", "I", "n", "f", "o", "\"">>,
          <<"{">>,
          <<"B", "L", "O", "C", "K", " ", "\"">> \o fmt_04x(self.language)
              \o <<"0", "4", "b", "0", "\"">>,
          <<"{">>>>
    \o value_lines(self, properties_iter(self))
    \o <<<<"}">>, <<"}">>,
          <<"B", "L", "O", "C", "K", " ", "\"", "V", "a", "r", "F", "i", "l", "e", "I", "n", "f", "o", "\"", " ", "{">>,
          <<"V", "A", "L", "U", "E", " ", "\"", "T", "r", "a", "n", "s", "l", "a", "t", "i", "o", "n", "\"", ",", " ">> \o <<"0", "x">> \o fmt_hex(self.language)
              \o <<",", " ", "0", "x", "0", "4", "b", "0">>,
          <<"}">>, <<"}">>>>
    \o icon_lines(self)
    \o manifest_lines(self)


\* ----------------------------------------------------- the builds explored

PKG_VERSION ==
    <<"1", ".", "2", ".", "3">>

PKG_NAME ==
    <<"a", "p", "p">>

PKG_DESCRIPTION ==
    <<"A", " ", "\"", "b", "\"">>

TEST_EXE ==
    <<"T", "E", "S", "T", ".", "E", "X", "E">>

ICON_A ==
    <<"a", ".", "i", "c", "o">>

ICON_B ==
    <<"r", "e", "s", "\\", "b", ".", "i", "c", "o">>

ICON_ID ==
    <<"2">>

MANIFEST_XML ==
    <<"<", "a", " ", "x", "=", "\"", "1", "\"", ">", "\r", "\n", " ", " ",
      "<", "b", "/", ">", "\n", "<", "/", "a", ">", "\n">>

MANIFEST_PATH ==
    <<"a", "p", "p", ".", "m", "a", "n", "i", "f", "e", "s", "t">>

\* the cargo packages: CARGO_PKG_VERSION with its three components, CARGO_PKG_NAME
\* and CARGO_PKG_DESCRIPTION (empty when Cargo.toml gives none)
Packages ==
    {[version |-> PKG_VERSION, major |-> 1, minor |-> 2, patch |-> 3,
      name |-> PKG_NAME, description |-> d] : d \in {<<>>, PKG_DESCRIPTION}}

\* the seeds of a HashMap's RandomState are 0..MaxHashSeed
MaxHashSeed ==
    1

HashSeeds ==
    0..MaxHashSeed

SetNames ==
    {FileDescription, InternalName}

SetValues ==
    {<<>>, TEST_EXE}

\* MAKELANGID(LANG_ENGLISH, SUBLANG_ENGLISH_US) = 0x0409
Languages ==
    {1033}

IconPaths ==
    {ICON_A, ICON_B}

IconIds ==
    {ICON_ID}

VersionInfoInputs ==
    {<<"PRODUCTVERSION", U64(65535, 2, 0, 10)>>, <<"FILETYPE", U64(0, 0, 0, 2)>>}

Manifests ==
    {MANIFEST_XML}

ManifestFiles ==
    {MANIFEST_PATH}


\* ------------------------------------------------------ WindowsResource::new

\* the struct WindowsResource::new returns for a cargo package; each HashMap is
\* created with a RandomState of its own
WindowsResource_new(pkg, properties_seed, version_info_seed, tool, output_directory) ==
    LET props == insert(insert(insert(insert(EmptyMap,
                        FileVersion, pkg.version),
                        ProductVersion, pkg.version),
                        ProductName, pkg.name),
                        FileDescription, pkg.description)
        version == bitor(bitor(bitor(U64(0, 0, 0, 0),
                        shl(u64_of(pkg.major), 48)),
                        shl(u64_of(pkg.minor), 32)),
                        shl(u64_of(pkg.patch), 16))
        ver == insert(insert(insert(insert(insert(insert(insert(EmptyMap,
                        "FILEVERSION", version),
                        "PRODUCTVERSION", version),
                        "FILEOS", U64(0, 0, 4, 4)),
                        "FILETYPE", U64(0, 0, 0, 1)),
                        "FILESUBTYPE", U64(0, 0, 0, 0)),
                        "FILEFLAGSMASK", U64(0, 0, 0, 63)),
                        "FILEFLAGS", U64(0, 0, 0, 0))
    IN  [tool |-> tool,
         properties |-> props,
         properties_seed |-> properties_seed,
         version_info |-> ver,
         version_info_seed |-> version_info_seed,
         rc_file |-> None,
         icon_id |-> None,
         icon |-> None,
         language |-> 0,
         manifest |-> None,
         manifest_file |-> None,
         output_directory |-> output_directory,
         windres_path |-> None,
         ar_path |-> None]

\* the tool get_sdk returns on a host with the 10.0.5 SDK under the first root,
\* for an x64 build
HOST_TOOL ==
    LET bin_dir == <<ROOT_A, BIN, V_10_0_5, dirname("X64")>>
        inc == <<ROOT_A, INCLUDE, V_10_0_5>>
    IN  [sdk_version |-> V_10_0_5,
         installed_root |-> <<ROOT_A>>,
         arch |-> "X64",
         path |-> join(bin_dir, RC_EXE),
         include_dirs |-> [name \in {UM, SHARED} |-> join(inc, name)],
         lib_dirs |-> <<>>,
         bin_dir |-> bin_dir]

\* env::var("OUT_DIR").unwrap_or(".".to_string())
output_directory_of(dir) ==
    IF is_some(dir) THEN unwrap(dir) ELSE <<".">>

\* no icon setter was called
NoIconCalls ==
    [last |-> "none", path |-> None, id |-> None]

\* the resource of a build that does not touch it
IdleResource ==
    WindowsResource_new(CHOOSE p \in Packages : p.description = <<>>, 0, 0,
                        HOST_TOOL, <<".">>)

InitRc ==
    /\ \E pkg \in Packages, ps \in HashSeeds, vs \in HashSeeds :
            res = WindowsResource_new(pkg, ps, vs, HOST_TOOL, <<".">>)
    /\ rc_out = NotCalled
    /\ manifest_calls = <<>>
    /\ icon_calls = NoIconCalls

IdleRc ==
    /\ res = IdleResource
    /\ rc_out = NotCalled
    /\ manifest_calls = <<>>
    /\ icon_calls = NoIconCalls

\* the host of a build that runs no discovery
IdleSdk ==
    /\ reg_status = "ok"
    /\ reg_stdout = <<>>
    /\ fs = {}
    /\ env_version = None
    /\ target_arch = Some("X64")
    /\ called = "none"
    /\ result = NotCalled

\* ------------------------------------------------------------- the builder

set(name, value) ==
    /\ res' = [res EXCEPT !.properties = insert(@, name, value)]
    /\ rc_out' = NotCalled
    /\ UNCHANGED <<manifest_calls, icon_calls, not_rc_vars>>

set_language(language) ==
    /\ res' = [res EXCEPT !.language = language]
    /\ rc_out' = NotCalled
    /\ UNCHANGED <<manifest_calls, icon_calls, not_rc_vars>>

\* set_icon forgetting the id of an earlier set_icon_with_id
set_icon_resetting_id(path) ==
    /\ res' = [res EXCEPT !.icon = Some(path), !.icon_id = None]
    /\ rc_out' = NotCalled
    /\ icon_calls' = [icon_calls EXCEPT !.last = "set_icon", !.path = Some(path)]
    /\ UNCHANGED <<manifest_calls, not_rc_vars>>

set_icon(path) ==
    /\ res' = [res EXCEPT !.icon = Some(path)]
    /\ rc_out' = NotCalled
    /\ icon_calls' = [icon_calls EXCEPT !.last = "set_icon", !.path = Some(path)]
    /\ UNCHANGED <<manifest_calls, not_rc_vars>>

set_icon_with_id(path, icon_id) ==
    /\ res' = [res EXCEPT !.icon = Some(path), !.icon_id = Some(icon_id)]
    /\ rc_out' = NotCalled
    /\ icon_calls' = [last |-> "set_icon_with_id", path |-> Some(path),
                      id |-> Some(icon_id)]
    /\ UNCHANGED <<manifest_calls, not_rc_vars>>

set_version_info(field, value) ==
    /\ res' = [res EXCEPT !.version_info = insert(@, field, value)]
    /\ rc_out' = NotCalled
    /\ UNCHANGED <<manifest_calls, icon_calls, not_rc_vars>>

\* the call history, kept to its latest two entries
latest_two(calls, call) ==
    IF calls = <<>> THEN <<call>> ELSE <<calls[Len(calls)], call>>

\* set_manifest without clearing the file reference
set_manifest_keeping_file(r, manifest) ==
    [r EXCEPT !.manifest = Some(manifest)]

\* the fields set_manifest assigns
set_manifest_of(r, manifest) ==
    [r EXCEPT !.manifest_file = None, !.manifest = Some(manifest)]

set_manifest(manifest) ==
    /\ res' = set_manifest_of(res, manifest)
    /\ rc_out' = NotCalled
    /\ manifest_calls' = latest_two(manifest_calls, "set_manifest")
    /\ UNCHANGED <<icon_calls, not_rc_vars>>

\* the fields set_manifest_file assigns
set_manifest_file_of(r, file) ==
    [r EXCEPT !.manifest_file = Some(file), !.manifest = None]

set_manifest_file(file) ==
    /\ res' = set_manifest_file_of(res, file)
    /\ rc_out' = NotCalled
    /\ manifest_calls' = latest_two(manifest_calls, "set_manifest_file")
    /\ UNCHANGED <<icon_calls, not_rc_vars>>

\* write_resource_file: File::create fails, or the whole text is written
write_resource_file ==
    /\ \E created \in BOOLEAN :
            rc_out' = IF created THEN Ok(write_resource_file_text(res))
                      ELSE Err([kind |-> "Io", message |-> "create"])
    /\ UNCHANGED <<res, manifest_calls, icon_calls, not_rc_vars>>

NextRc ==
    \/ \E name \in SetNames, value \in SetValues : set(name, value)
    \/ \E language \in Languages : set_language(language)
    \/ \E path \in IconPaths : set_icon(path)
    \/ \E path \in IconPaths, icon_id \in IconIds : set_icon_with_id(path, icon_id)
    \/ \E fv \in VersionInfoInputs : set_version_info(fv[1], fv[2])
    \/ \E manifest \in Manifests : set_manifest(manifest)
    \/ \E file \in ManifestFiles : set_manifest_file(file)
    \/ write_resource_file


\* ====================================================== lib.rs: compile

\* the CARGO_MANIFEST_DIR of the build
MANIFEST_DIR ==
    <<"C", ":", "\\", "p", "r", "o", "j">>

\* the OUT_DIR of the build, when cargo sets it
OUT_DIR ==
    <<"C", ":", "\\", "o", "u", "t">>

RESOURCE_RC ==
    <<"r", "e", "s", "o", "u", "r", "c", "e", ".", "r", "c">>

RESOURCE_LIB ==
    <<"r", "e", "s", "o", "u", "r", "c", "e", ".", "l", "i", "b">>

RESOURCE_O ==
    <<"r", "e", "s", "o", "u", "r", "c", "e", ".", "o">>

LIBRESOURCE_A ==
    <<"l", "i", "b", "r", "e", "s", "o", "u", "r", "c", "e", ".", "a">>

WINDRES_EXE ==
    <<"w", "i", "n", "d", "r", "e", "s", ".", "e", "x", "e">>

AR_EXE ==
    <<"a", "r", ".", "e", "x", "e">>

\* PathBuf::from(string)
PathBuf_from(string) ==
    <<string>>

\* Path::display and Path::to_str of a path whose components are UTF-8: the
\* components, a separator between two of them unless the first ends with one
RECURSIVE display(_)
display(path) ==
    IF Len(path) = 0 THEN <<>>
    ELSE IF Len(path) = 1 THEN path[1]
    ELSE LET front == display(SubSeq(path, 1, Len(path) - 1))
         IN  front
             \o (IF front # <<>> /\ front[Len(front)] \in {"\\", "/"} THEN <<>>
                 ELSE <<"\\">>)
             \o path[Len(path)]

\* WindowsResource::tool_path
tool_path(self) ==
    Ok(self.tool.path)

\* WindowsResource::include_dirs: the values of the tool's map, in the order the
\* map iterates
include_dirs(self, seed) ==
    LET keys == iter_order(seed, sort_keys(DOMAIN self.tool.include_dirs))
    IN  [i \in 1..Len(keys) |-> self.tool.include_dirs[keys[i]]]

\* the steps of a compile_with_toolkit: a child process spawned and waited for,
\* a test of its exit status, a line printed, a return
Spawn(program, args, cwd) ==
    [op |-> "spawn", program |-> program, args |-> args, cwd |-> cwd]

CheckStatus(message) ==
    [op |-> "check", message |-> message]

Println(line) ==
    [op |-> "println", line |-> line]

Return(value) ==
    [op |-> "return", value |-> value]

IoError(message) ==
    Err([kind |-> "Other", message |-> message])

\* the first lines of the two reports of the captured output
RC_OUTPUT ==
    <<"R", "C", " ", "O", "u", "t", "p", "u", "t", ":">>

RC_ERROR ==
    <<"R", "C", " ", "E", "r", "r", "o", "r", ":">>

LINK_SEARCH ==
    <<"c", "a", "r", "g", "o", ":", "r", "u", "s", "t", "c", "-", "l", "i", "n", "k", "-", "s", "e", "a", "r", "c", "h", "=", "n", "a", "t", "i", "v", "e", "=">>

LINK_LIB_DYLIB ==
    <<"c", "a", "r", "g", "o", ":", "r", "u", "s", "t", "c", "-", "l", "i", "n", "k", "-", "l", "i", "b", "=", "d", "y", "l", "i", "b", "=", "r", "e", "s", "o", "u", "r", "c", "e">>

LINK_LIB_STATIC ==
    <<"c", "a", "r", "g", "o", ":", "r", "u", "s", "t", "c", "-", "l", "i", "n", "k", "-", "l", "i", "b", "=", "s", "t", "a", "t", "i", "c", "=", "r", "e", "s", "o", "u", "r", "c", "e">>

\* the msvc compile_with_toolkit without its test of the exit status
compile_with_toolkit_msvc_unchecked(self, input, output_dir, seed) ==
    <<Spawn(display(tool_path(self).value), <<display(PathBuf_from(input))>>, None),
      Println(RC_OUTPUT),
      Println(RC_ERROR),
      Println(LINK_SEARCH \o output_dir),
      Println(LINK_LIB_DYLIB),
      Return(Ok("unit"))>>

\* #[cfg(target_env = "msvc")] compile_with_toolkit
compile_with_toolkit_msvc(self, input, output_dir, seed) ==
    LET rc_exe == tool_path(self).value
        output == join(PathBuf_from(output_dir), RESOURCE_LIB)
        dirs == include_dirs(self, seed)
        args == <<<<"/", "I">> \o MANIFEST_DIR>>
                    \o [i \in 1..Len(dirs) |-> <<"/", "I">> \o display(dirs[i])]
                    \o <<<<"/", "f", "o">> \o display(output),
                         display(PathBuf_from(input))>>
    IN  <<Spawn(display(rc_exe), args, None),
          Println(RC_OUTPUT),
          Println(RC_ERROR),
          CheckStatus("Could not compile resource file"),
          Println(LINK_SEARCH \o output_dir),
          Println(LINK_LIB_DYLIB),
          Return(Ok("unit"))>>

\* #[cfg(target_env = "gnu")] compile_with_toolkit; it reads self.toolkit_path,
\* a field struct WindowsResource does not declare
compile_with_toolkit_gnu(self, input, output_dir) ==
    LET output == join(PathBuf_from(output_dir), RESOURCE_O)
        windres_path == IF is_some(self.windres_path) THEN unwrap(self.windres_path)
                        ELSE WINDRES_EXE
        libname == join(PathBuf_from(output_dir), LIBRESOURCE_A)
        ar_path == IF is_some(self.ar_path) THEN unwrap(self.ar_path) ELSE AR_EXE
    IN  <<Spawn(windres_path,
                <<<<"-", "I">> \o MANIFEST_DIR, display(PathBuf_from(input)),
                  display(output)>>,
                Some("self.toolkit_path")),
          CheckStatus("Could not compile resource file"),
          Spawn(ar_path, <<<<"r", "s", "c">>, display(libname), display(output)>>,
                Some("self.toolkit_path")),
          CheckStatus("Could not create static library for resource file"),
          Println(LINK_SEARCH \o output_dir),
          Println(LINK_LIB_STATIC),
          Return(Ok("unit"))>>

\* #[cfg(not(any(target_env = "gnu", target_env = "msvc")))] compile_with_toolkit
compile_with_toolkit_other(self, input, output_dir) ==
    <<Return(IoError("Can only compile resource file when target_env is gnu or msvc"))>>

\* the compile_with_toolkit the build is compiled with
compile_with_toolkit(self, input, output_dir, env, seed) ==
    CASE env = "msvc" -> compile_with_toolkit_msvc(self, input, output_dir, seed)
      [] env = "gnu" -> compile_with_toolkit_gnu(self, input, output_dir)
      [] OTHER -> compile_with_toolkit_other(self, input, output_dir)

\* compile: output.join("resource.rc")
generated_rc(self) ==
    join(PathBuf_from(self.output_directory), RESOURCE_RC)

\* the path of the generated file, whether or not a resource file was given
compile_input_generated(self) ==
    display(generated_rc(self))

\* compile: the path it passes to compile_with_toolkit
compile_input(self) ==
    IF is_some(self.rc_file) THEN unwrap(self.rc_file)
    ELSE display(generated_rc(self))

\* ------------------------------------------------------ the build script

TargetEnvs ==
    {"msvc", "gnu", "other"}

\* what spawning a child process and waiting for it can give
SpawnOutcomes ==
    {"spawn_failed", "exit_0", "exit_1"}

\* the arguments the build script passes to the setters
GIVEN_RC ==
    <<"m", "y", ".", "r", "c">>

GIVEN_DIR ==
    <<"g", "e", "n">>

GIVEN_WINDRES ==
    <<"x", "8", "6", "_", "6", "4", "-", "w", "6", "4", "-", "m", "i", "n", "g", "w", "3", "2", "-", "w", "i", "n", "d", "r", "e", "s">>

GIVEN_AR ==
    <<"x", "8", "6", "_", "6", "4", "-", "w", "6", "4", "-", "m", "i", "n", "g", "w", "3", "2", "-", "a", "r">>

\* the registry of the build host
BUILD_HOST_OUTPUT ==
    <<INSTALLED_ROOTS_KEY, LINE_ROOT_A, LINE_VERSION(V_10_0_5)>>

\* the build host, with the SDK the registry lists on disk or not
InitBuildHost ==
    /\ reg_status = "ok"
    /\ reg_stdout = BUILD_HOST_OUTPUT
    /\ fs \in {FsOf([q \in {<<ROOT_A, V_10_0_5>>} |-> "full"]), {}}
    /\ env_version = None
    /\ target_arch = Some("X64")
    /\ called = "none"
    /\ result = NotCalled

\* the build script is about to call WindowsResource::new
InitCc ==
    /\ target_env \in TargetEnvs
    /\ out_dir \in {None, Some(OUT_DIR)}
    /\ pc = "start"
    /\ ip = 0
    /\ exit_status = None
    /\ effects = <<>>
    /\ compile_result = NotCalled

Panicked(message) ==
    [op |-> "panic", message |-> message]

\* WindowsResource::new as the build script calls it: the tool is looked up on an
\* msvc build and is unimplemented!() on every other
WindowsResource_new_call ==
    /\ pc = "start"
    /\ IF target_env = "msvc"
       THEN LET tool == get_sdk_of(reg_status, reg_stdout, env_version, target_arch)
            IN  /\ called' = "get_sdk"
                /\ result' = tool
                /\ IF is_ok(tool)
                   THEN /\ \E pkg \in Packages, ps \in HashSeeds, vs \in HashSeeds :
                            res' = WindowsResource_new(pkg, ps, vs, tool.value,
                                                       output_directory_of(out_dir))
                        /\ pc' = "built"
                        /\ UNCHANGED effects
                   ELSE /\ pc' = "panicked"
                        /\ effects' = Append(effects, Panicked("get_sdk"))
                        /\ UNCHANGED res
       ELSE /\ pc' = "panicked"
            /\ effects' = Append(effects, Panicked("not implemented"))
            /\ UNCHANGED <<called, result, res>>
    /\ UNCHANGED <<reg_status, reg_stdout, fs, env_version, target_arch, rc_out,
                   manifest_calls, icon_calls, esc_vars, target_env, out_dir, ip, exit_status,
                   compile_result>>

\* what a setter of the build script leaves alone
setter_frame ==
    <<sdk_vars, rc_out, manifest_calls, icon_calls, esc_vars, cc_vars>>

set_resource_file(path) ==
    /\ pc = "built"
    /\ res' = [res EXCEPT !.rc_file = Some(path)]
    /\ UNCHANGED setter_frame

set_output_directory(path) ==
    /\ pc = "built"
    /\ res' = [res EXCEPT !.output_directory = path]
    /\ UNCHANGED setter_frame

set_windres_path(path) ==
    /\ pc = "built"
    /\ res' = [res EXCEPT !.windres_path = Some(path)]
    /\ UNCHANGED setter_frame

set_ar_path(path) ==
    /\ pc = "built"
    /\ res' = [res EXCEPT !.ar_path = Some(path)]
    /\ UNCHANGED setter_frame

Written(path, text) ==
    [op |-> "write", path |-> path, text |-> text]

\* compile, up to its call of compile_with_toolkit: the resource file is written
\* unless one was given, and a failure to create it is returned
compile ==
    /\ pc = "built"
    /\ \E created \in BOOLEAN :
        IF res.rc_file = None /\ ~created
        THEN /\ compile_result' = Err([kind |-> "Io", message |-> "create"])
             /\ pc' = "returned"
             /\ UNCHANGED <<effects, ip>>
        ELSE /\ effects' = IF res.rc_file = None
                           THEN Append(effects, Written(display(generated_rc(res)),
                                                        write_resource_file_text(res)))
                           ELSE effects
             /\ pc' = "compile_with_toolkit"
             /\ ip' = 1
             /\ UNCHANGED compile_result
    /\ UNCHANGED <<sdk_vars, rc_vars, esc_vars, target_env, out_dir, exit_status>>

\* one step of compile_with_toolkit; its return is the return of compile
compile_with_toolkit_step ==
    /\ pc = "compile_with_toolkit"
    /\ \E outcome \in SpawnOutcomes, seed \in HashSeeds :
        LET step == compile_with_toolkit(res, compile_input(res), res.output_directory,
                                         target_env, seed)[ip]
        IN  IF step.op = "spawn"
            THEN /\ effects' = Append(effects, [op |-> "spawn",
                                                program |-> step.program,
                                                args |-> step.args,
                                                cwd |-> step.cwd,
                                                outcome |-> outcome])
                 /\ IF outcome = "spawn_failed"
                    THEN /\ compile_result' = Err([kind |-> "Io", message |-> "spawn"])
                         /\ pc' = "returned"
                         /\ UNCHANGED <<ip, exit_status>>
                    ELSE /\ exit_status' = Some(IF outcome = "exit_0" THEN 0 ELSE 1)
                         /\ ip' = ip + 1
                         /\ UNCHANGED <<pc, compile_result>>
            ELSE IF step.op = "check"
            THEN IF exit_status = Some(0)
                 THEN /\ ip' = ip + 1
                      /\ UNCHANGED <<pc, compile_result, effects, exit_status>>
                 ELSE /\ compile_result' = IoError(step.message)
                      /\ pc' = "returned"
                      /\ UNCHANGED <<ip, effects, exit_status>>
            ELSE IF step.op = "println"
            THEN /\ effects' = Append(effects, [op |-> "println", line |-> step.line])
                 /\ ip' = ip + 1
                 /\ UNCHANGED <<pc, compile_result, exit_status>>
            ELSE /\ compile_result' = step.value
                 /\ pc' = "returned"
                 /\ UNCHANGED <<ip, effects, exit_status>>
    /\ UNCHANGED <<sdk_vars, rc_vars, esc_vars, target_env, out_dir>>

NextCc ==
    \/ WindowsResource_new_call
    \/ set_resource_file(GIVEN_RC)
    \/ set_output_directory(GIVEN_DIR)
    \/ set_windres_path(GIVEN_WINDRES)
    \/ set_ar_path(GIVEN_AR)
    \/ compile
    \/ compile_with_toolkit_step

\* the strings escaped: every string of at most MaxStringLen characters over the
\* special characters and two ordinary ones, and the strings of the crate's test
MaxStringLen ==
    3

EscapeAlphabet ==
    {"\"", "'", "\\", "\n", "\t", "\r", "a", "n"}

TestStrings ==
    {<<"f", "o", "o">>,
     <<"\"", "H", "e", "l", "l", "o", "\"">>,
     <<"C", ":", "\\", "P", "r", "o", "g", "r", "a", "m", " ", "F", "i", "l", "e", "s", "\\", "F", "o", "o", "b", "a", "r">>}

\* no build script runs
IdleCc ==
    /\ target_env = "msvc"
    /\ out_dir = None
    /\ pc = "none"
    /\ ip = 0
    /\ exit_status = None
    /\ effects = <<>>
    /\ compile_result = NotCalled

IdleEsc ==
    /\ esc_in = <<>>
    /\ esc_out = None

InitEsc ==
    /\ esc_in \in BoundedSeqs(EscapeAlphabet, MaxStringLen) \cup TestStrings
    /\ esc_out = None

\* a call of escape_string, as the writer makes it for every name, value and path
escape_string_call ==
    /\ esc_out = None
    /\ esc_out' = Some(escape_string(esc_in))
    /\ UNCHANGED <<esc_in, sdk_vars, rc_vars, cc_vars>>

NextEsc ==
    escape_string_call

vars ==
    <<sdk_vars, rc_vars, esc_vars, cc_vars>>

\* SDK discovery and tool selection on the healthy hosts
InitSpecSdk ==
    InitSdk /\ IdleRc /\ IdleEsc /\ IdleCc

SpecSdk ==
    InitSpecSdk /\ [][NextSdk]_vars

\* SDK discovery on arbitrary registry output
InitSpecParse ==
    InitParse /\ IdleRc /\ IdleEsc /\ IdleCc

SpecParse ==
    InitSpecParse /\ [][NextSdk]_vars

\* building and writing a resource
InitSpecRc ==
    InitRc /\ IdleSdk /\ IdleEsc /\ IdleCc

SpecRc ==
    InitSpecRc /\ [][NextRc]_vars

\* a build script: new(), setters, compile()
InitSpecCc ==
    InitCc /\ InitBuildHost /\ IdleEsc
        /\ res = IdleResource /\ rc_out = NotCalled /\ manifest_calls = <<>>
        /\ icon_calls = NoIconCalls

SpecCc ==
    InitSpecCc /\ [][NextCc]_vars

\* escape_string on its own
InitSpecEsc ==
    InitEsc /\ IdleSdk /\ IdleRc /\ IdleCc

SpecEsc ==
    InitSpecEsc /\ [][NextEsc]_vars

\* ================================================================== properties

\* ------------------------------------------------ SDK discovery and selection

\* the inventory System::new builds on this host
TheSystem ==
    System_new_of(reg_status, reg_stdout)

\* the inventory was built and the target architecture is supported
Resolving ==
    /\ called = "get_sdk"
    /\ is_ok(TheSystem)
    /\ is_some(target_arch)

\* the candidate tools of get_sdk, in inventory order
Candidates ==
    IF is_ok(TheSystem) /\ is_some(target_arch)
    THEN filter_map_tool(TheSystem.value.sdks, unwrap(target_arch))
    ELSE <<>>

PreferenceMatches ==
    /\ is_some(env_version)
    /\ \E i \in 1..Len(Candidates) : Candidates[i].sdk_version = unwrap(env_version)

\* C1: when WindowsSDKVersion is set and equals the version of at least one
\* candidate tool, get_sdk returns a tool of exactly that version, whatever
\* greater versions the other candidates have.
C1_PreferredVersionWins ==
    (called = "get_sdk" /\ PreferenceMatches)
        => (is_ok(result) /\ result.value.sdk_version = unwrap(env_version))

\* C1 happens: candidates 10.0.10, 10.0.5, 10.0.3 in that order, the preference
\* 10.0.3 is neither the first nor the greatest, and 10.0.3 is returned.
C1_Witness ==
    /\ called = "get_sdk"
    /\ env_version = Some(V_10_0_3)
    /\ [i \in 1..Len(Candidates) |-> Candidates[i].sdk_version]
            = <<V_10_0_10, V_10_0_5, V_10_0_3>>
    /\ is_ok(result)
    /\ result.value.sdk_version = V_10_0_3

\* the value of a string of decimal digits
RECURSIVE parse_number(_, _)
parse_number(s, acc) ==
    IF s = <<>> THEN acc ELSE parse_number(Tail(s), acc * 10 + (Ord(Head(s)) - 48))

\* the numeric components of a dot-separated version string
RECURSIVE components(_, _)
components(s, cur) ==
    IF s = <<>> THEN <<parse_number(cur, 0)>>
    ELSE IF Head(s) = "." THEN <<parse_number(cur, 0)>> \o components(Tail(s), <<>>)
    ELSE components(Tail(s), Append(cur, Head(s)))

\* component-wise numeric comparison of two component lists
RECURSIVE cmp_components(_, _)
cmp_components(a, b) ==
    IF a = <<>> /\ b = <<>> THEN "Equal"
    ELSE IF a = <<>> THEN "Less"
    ELSE IF b = <<>> THEN "Greater"
    ELSE IF Head(a) < Head(b) THEN "Less"
    ELSE IF Head(a) > Head(b) THEN "Greater"
    ELSE cmp_components(Tail(a), Tail(b))

numeric_cmp(a, b) ==
    cmp_components(components(a, <<>>), components(b, <<>>))

\* C2: when no preferred version is set, or it equals no candidate's version, the
\* tool get_sdk returns has the greatest version under component-wise numeric
\* comparison (10.0.10 above 10.0.5), not under string comparison.
C2_NumericallyGreatestSelected ==
    (called = "get_sdk" /\ is_ok(result) /\ ~PreferenceMatches)
        => \A i \in 1..Len(Candidates) :
                numeric_cmp(Candidates[i].sdk_version, result.value.sdk_version)
                    # "Greater"

\* the orders a sequence can be iterated in
Orders(s) ==
    {[i \in 1..Len(s) |-> s[p[i]]] : p \in Permutations(1..Len(s))}

\* C3: with no version preference, get_sdk returns the same tool (version,
\* installation root and executable path) for every order of the inventory's SDK
\* list, also when two installation roots host the same version.
C3_SameToolForEveryOrder ==
    (Resolving /\ env_version = None)
        => \A sdks \in Orders(TheSystem.value.sdks) :
                resolve_tool([TheSystem.value EXCEPT !.sdks = sdks], None, target_arch)
                    = result

\* the executable of an SDK of the inventory is in the binary directory of the
\* target architecture
OnDisk(sdk) ==
    sdk.installed_root \o <<BIN, sdk.version, dirname(unwrap(target_arch)), RC_EXE>>
        \in fs

\* C4: when no SDK of the inventory has rc.exe in the binary directory of the
\* requested architecture, get_sdk returns an error that names the architecture
\* and the enumerated installation roots; when one has, it returns a tool of the
\* inventory, complete, and no error.
C4_ErrorExactlyWhenNoCandidate ==
    Resolving =>
        LET sdks == TheSystem.value.sdks IN
        IF \E i \in 1..Len(sdks) : OnDisk(sdks[i])
        THEN /\ is_ok(result)
             /\ result.value.arch = unwrap(target_arch)
             /\ \E i \in 1..Len(sdks) :
                    /\ OnDisk(sdks[i])
                    /\ result.value.sdk_version = sdks[i].version
                    /\ result.value.installed_root = sdks[i].installed_root
                    /\ result.value.path = sdks[i].installed_root
                            \o <<BIN, sdks[i].version, dirname(unwrap(target_arch)), RC_EXE>>
                    /\ result.value.bin_dir = sdks[i].installed_root
                            \o <<BIN, sdks[i].version, dirname(unwrap(target_arch))>>
        ELSE /\ result.tag = "Err"
             /\ result.error.arch = dirname(unwrap(target_arch))
             /\ result.error.installed_roots = TheSystem.value.installed_roots
             /\ result.error.installed_roots.kits_roots # <<>>

\* C4 happens: the inventory holds an SDK, none has rc.exe for x64, and the error
\* names x64 and the roots.
C4_Witness ==
    /\ Resolving
    /\ target_arch = Some("X64")
    /\ TheSystem.value.sdks # <<>>
    /\ \A i \in 1..Len(TheSystem.value.sdks) : ~OnDisk(TheSystem.value.sdks[i])
    /\ result.tag = "Err"
    /\ result.error.arch = <<"x", "6", "4">>
    /\ Len(result.error.installed_roots.kits_roots) = 2

\* C7: for every listed (root, version) whose <root>/bin/<version> exists,
\* constructing the Sdk succeeds with a toolset for each of the four
\* architectures, one without its directory offering no tool, and a missing
\* directory never makes Sdk::new or System::new fail.
C7_SdkNewNeverFails ==
    (called = "System::new" /\ is_ok(InstalledRoots_new_of(reg_status, reg_stdout)))
        => /\ is_ok(result)
           /\ LET roots == InstalledRoots_new_of(reg_status, reg_stdout).value IN
              \A r \in 1..Len(roots.kits_roots), v \in 1..Len(roots.sdk_versions) :
                Sdk_exists(roots.sdk_versions[v], roots.kits_roots[r][2])
                    => \E i \in 1..Len(result.value.sdks) :
                        LET sdk == result.value.sdks[i] IN
                        /\ sdk.version = roots.sdk_versions[v]
                        /\ sdk.installed_root = roots.kits_roots[r][2]
                        /\ DOMAIN sdk.sdk_archs = {"Arm", "Arm64", "X86", "X64"}
                        /\ \A a \in DOMAIN sdk.sdk_archs :
                            sdk.sdk_archs[a].bin_dir \notin fs
                                => Sdk_tool(sdk, RC_EXE, a) = None

\* --------------------------------------------------- registry output parsing

\* no line of the registry output is an installation-root line
NoRootLine ==
    \A i \in 1..Len(reg_stdout) : ~starts_with(trim(reg_stdout[i]), KITS_ROOT_PREFIX)

IsVersionLine(line) ==
    \E v \in Versions : trim(line) = LINE_VERSION(v)

\* C5: when the registry query output holds no installation-root line, discovery
\* (InstalledRoots::new, System::new and get_sdk on top of it) returns an error,
\* whatever version lines the output holds; a successful inventory never has an
\* empty root list.
C5_NoRootsIsAnError ==
    /\ (called # "none" /\ NoRootLine) => result.tag = "Err"
    /\ (called = "InstalledRoots::new" /\ is_ok(result))
            => result.value.kits_roots # <<>>
    /\ (called = "System::new" /\ is_ok(result))
            => result.value.installed_roots.kits_roots # <<>>

\* C5 happens: the query succeeded, its output lists a version but no root, and
\* System::new returned the error of InstalledRoots::new.
C5_Witness ==
    /\ called = "System::new"
    /\ reg_status = "ok"
    /\ NoRootLine
    /\ \E i \in 1..Len(reg_stdout) : IsVersionLine(reg_stdout[i])
    /\ result.tag = "Err"
    /\ result.error.message = "no installed root found"

\* a line that is neither a root line with its REG_SZ marker nor a version line
Unrecognized(line) ==
    /\ ~(starts_with(trim(line), KITS_ROOT_PREFIX) /\ is_some(find(trim(line), REG_SZ)))
    /\ ~(starts_with(trim(line), INSTALLED_ROOTS_KEY)
            /\ Len(trim(line)) > Len(INSTALLED_ROOTS_KEY) + 1)

\* a sequence without its i-th element
Without(s, i) ==
    SubSeq(s, 1, i - 1) \o SubSeq(s, i + 1, Len(s))

\* C6: a malformed or unrecognized line, also one that begins with the root
\* prefix but lacks the REG_SZ marker, is skipped: InstalledRoots::new returns
\* what it returns for the output without that line, and does not abort.
C6_MalformedLineSkipped ==
    (called = "InstalledRoots::new" /\ reg_status = "ok")
        => /\ result.tag # "Panic"
           /\ \A i \in 1..Len(reg_stdout) :
                Unrecognized(reg_stdout[i])
                    => result = InstalledRoots_new_of("ok", Without(reg_stdout, i))

\* ------------------------------------------------------- the resource file

Digits ==
    {"0", "1", "2", "3", "4", "5", "6", "7", "8", "9"}

\* a line that opens a manifest resource: a numeric id, then the type 24, then
\* nothing or a quoted file name
IsManifestHeader(line) ==
    \E k \in 1..(Len(line) - 3) :
        /\ \A j \in 1..k : line[j] \in Digits
        /\ SubSeq(line, k + 1, k + 3) = <<" ", "2", "4">>
        /\ \/ Len(line) = k + 3
           \/ /\ Len(line) > k + 5
              /\ SubSeq(line, k + 4, k + 5) = <<" ", "\"">>

ManifestHeaders(text) ==
    {i \in 1..Len(text) : IsManifestHeader(text[i])}

LastManifestCall ==
    IF manifest_calls = <<>> THEN "none" ELSE manifest_calls[Len(manifest_calls)]

\* C8: after any sequence of builder calls at most one of the inline manifest and
\* the manifest file reference is set: set_manifest clears the file reference,
\* set_manifest_file clears the inline manifest, and write_resource_file emits at
\* most one manifest resource block.
C8_ManifestMutualExclusion ==
    /\ ~(is_some(res.manifest) /\ is_some(res.manifest_file))
    /\ LastManifestCall = "set_manifest"
            => (is_some(res.manifest) /\ res.manifest_file = None)
    /\ LastManifestCall = "set_manifest_file"
            => (is_some(res.manifest_file) /\ res.manifest = None)
    /\ is_ok(rc_out) => Cardinality(ManifestHeaders(rc_out.value)) <= 1

\* C8 happens: set_manifest was called after set_manifest_file, the file
\* reference is gone, and the file written holds one manifest block.
C8_Witness ==
    /\ manifest_calls = <<"set_manifest_file", "set_manifest">>
    /\ res.manifest_file = None
    /\ res.manifest = Some(MANIFEST_XML)
    /\ is_ok(rc_out)
    /\ Cardinality(ManifestHeaders(rc_out.value)) = 1

\* the lines from the manifest header to the end of the text
ManifestBlock(text) ==
    LET h == CHOOSE i \in ManifestHeaders(text) : TRUE
    IN  SubSeq(text, h, Len(text))

\* the FILETYPE values the builds set, as the resource compiler reads them
FileTypeId ==
    IF res.version_info["FILETYPE"] = U64(0, 0, 0, 2) THEN <<"2">> ELSE <<"1">>

\* MANIFEST_XML as write_resource_file is to quote it
QuotedManifestXml ==
    <<<<"\"", "<", "a", " ", "x", "=", "\"", "\"", "1", "\"", "\"", ">", "\"">>,
      <<"\"", "<", "b", "/", ">", "\"">>,
      <<"\"", "<", "/", "a", ">", "\"">>>>

\* C9: write_resource_file emits a manifest resource block of type 24 exactly
\* when a manifest (inline or file) is set and FILETYPE is present; the block
\* holds the inline manifest as quoted, escaped lines if set_manifest was the
\* latest manifest setter, or names the manifest file if set_manifest_file was,
\* never both; with no manifest set there is no block.
C9_ManifestBlock ==
    is_ok(rc_out) =>
        LET text == rc_out.value IN
        /\ IF (is_some(res.manifest) \/ is_some(res.manifest_file))
                /\ "FILETYPE" \in DOMAIN res.version_info
           THEN Cardinality(ManifestHeaders(text)) = 1
           ELSE ManifestHeaders(text) = {}
        /\ LastManifestCall = "none" => ManifestHeaders(text) = {}
        /\ LastManifestCall = "set_manifest"
                => ManifestBlock(text)
                    = <<FileTypeId \o <<" ", "2", "4">>, <<"{">>>>
                        \o QuotedManifestXml \o <<<<"}">>>>
        /\ LastManifestCall = "set_manifest_file"
                => ManifestBlock(text)
                    = <<FileTypeId \o <<" ", "2", "4", " ", "\"", "a", "p", "p", ".", "m", "a", "n", "i", "f", "e", "s", "t", "\"">>>>

\* C9 happens: FILETYPE was set to 2, set_manifest ran last, and the file
\* written ends with the block of the inline manifest.
C9_Witness ==
    /\ is_ok(rc_out)
    /\ LastManifestCall = "set_manifest"
    /\ res.version_info["FILETYPE"] = U64(0, 0, 0, 2)
    /\ Len(rc_out.value) > 5
    /\ SubSeq(rc_out.value, Len(rc_out.value) - 5, Len(rc_out.value))
            = <<<<"2", " ", "2", "4">>, <<"{">>>> \o QuotedManifestXml \o <<<<"}">>>>

\* the start of the VALUE line of a property
ValuePrefix(name) ==
    <<"V", "A", "L", "U", "E", " ", "\"">> \o name \o <<"\"", ",", " ", "\"">>

ValueLinesOf(text, name) ==
    {i \in 1..Len(text) : starts_with(text[i], ValuePrefix(name))}

\* the property values of the builds, as write_resource_file is to escape them
Escaped(value) ==
    IF value = PKG_DESCRIPTION THEN <<"A", " ", "\"", "\"", "b", "\"", "\"">> ELSE value

\* C10: after any sequence of set(name, value) calls the text written holds
\* exactly one VALUE line for each property whose value is non-empty and none for
\* a property whose value is empty: setting a property to the empty string
\* removes its line.
C10_ValueLines ==
    is_ok(rc_out) =>
        LET text == rc_out.value
            names == DOMAIN res.properties
        IN  /\ \A n \in names :
                IF res.properties[n] # <<>>
                THEN \E i \in 1..Len(text) :
                        /\ ValueLinesOf(text, n) = {i}
                        /\ text[i] = ValuePrefix(n) \o Escaped(res.properties[n])
                                        \o <<"\"">>
                ELSE ValueLinesOf(text, n) = {}
            /\ Cardinality(UNION {ValueLinesOf(text, n) : n \in names})
                    = Cardinality({n \in names : res.properties[n] # <<>>})

\* C10 happens: InternalName was set to the empty string, FileDescription to a
\* value, and the file written holds a line for the second and none for the first.
C10_Witness ==
    /\ is_ok(rc_out)
    /\ InternalName \in DOMAIN res.properties
    /\ res.properties[InternalName] = <<>>
    /\ res.properties[FileDescription] = TEST_EXE
    /\ ValueLinesOf(rc_out.value, InternalName) = {}
    /\ Cardinality(ValueLinesOf(rc_out.value, FileDescription)) = 1

\* ------------------------------------------------------- the version words

\* major << 48 | minor << 32 | patch << 16 | release
Pack(major, minor, patch, release) ==
    bitor(bitor(bitor(shl(u64_of(major), 48), shl(u64_of(minor), 32)),
                shl(u64_of(patch), 16)),
          u64_of(release))

\* the version tuples of the builds
VersionTuples ==
    {<<1, 2, 3, 0>>, <<65535, 2, 0, 10>>}

\* the decimal numerals of the words of the builds
Numeral(n) ==
    CASE n = 0 -> <<"0">>
      [] n = 1 -> <<"1">>
      [] n = 2 -> <<"2">>
      [] n = 3 -> <<"3">>
      [] n = 10 -> <<"1", "0">>
      [] n = 65535 -> <<"6", "5", "5", "3", "5">>

\* the lines of the text that begin with a field name and a space
FieldLinesOf(text, name) ==
    {i \in 1..Len(text) : starts_with(text[i], name \o <<" ">>)}

\* the scalar fields of the builds with the hexadecimal numeral of their value
ScalarNumeral(name, v) ==
    CASE name = <<"F", "I", "L", "E", "O", "S">> /\ v = U64(0, 0, 4, 4) -> <<"0", "x", "4", "0", "0", "0", "4">>
      [] name = <<"F", "I", "L", "E", "T", "Y", "P", "E">> /\ v = U64(0, 0, 0, 1) -> <<"0", "x", "1">>
      [] name = <<"F", "I", "L", "E", "T", "Y", "P", "E">> /\ v = U64(0, 0, 0, 2) -> <<"0", "x", "2">>
      [] name = <<"F", "I", "L", "E", "S", "U", "B", "T", "Y", "P", "E">> /\ v = U64(0, 0, 0, 0) -> <<"0", "x", "0">>
      [] name = <<"F", "I", "L", "E", "F", "L", "A", "G", "S", "M", "A", "S", "K">> /\ v = U64(0, 0, 0, 63) -> <<"0", "x", "3", "f">>
      [] name = <<"F", "I", "L", "E", "F", "L", "A", "G", "S">> /\ v = U64(0, 0, 0, 0) -> <<"0", "x", "0">>
      [] OTHER -> <<>>

\* C11: a version packed as major << 48 | minor << 32 | patch << 16 | release
\* is written, for FILEVERSION and PRODUCTVERSION, as exactly the four words
\* major, minor, patch, release in that order, and every other version-info
\* field is written as one hexadecimal scalar of its whole value.
C11_VersionWords ==
    is_ok(rc_out) =>
        LET text == rc_out.value IN
        \A k \in DOMAIN res.version_info :
            \E i \in 1..Len(text) :
                /\ FieldLinesOf(text, fmt_debug(k)) = {i}
                /\ IF k \in {"FILEVERSION", "PRODUCTVERSION"}
                   THEN \E t \in VersionTuples :
                            /\ res.version_info[k] = Pack(t[1], t[2], t[3], t[4])
                            /\ text[i] = fmt_debug(k) \o <<" ">>
                                    \o Numeral(t[1]) \o <<",", " ">>
                                    \o Numeral(t[2]) \o <<",", " ">>
                                    \o Numeral(t[3]) \o <<",", " ">>
                                    \o Numeral(t[4])
                   ELSE /\ ScalarNumeral(fmt_debug(k), res.version_info[k]) # <<>>
                        /\ text[i] = fmt_debug(k) \o <<" ">>
                                \o ScalarNumeral(fmt_debug(k), res.version_info[k])

\* C11 happens: PRODUCTVERSION was set to 65535.2.0.10, FILEVERSION is the
\* package's 1.2.3.0, and the file written holds the words of both.
C11_Witness ==
    /\ is_ok(rc_out)
    /\ res.version_info["PRODUCTVERSION"] = Pack(65535, 2, 0, 10)
    /\ \E i, j \in 1..Len(rc_out.value) :
        /\ rc_out.value[i] = <<"P", "R", "O", "D", "U", "C", "T", "V", "E", "R", "S", "I", "O", "N", " ", "6", "5", "5", "3", "5", ",", " ", "2", ",", " ", "0", ",", " ", "1", "0">>
        /\ rc_out.value[j] = <<"F", "I", "L", "E", "V", "E", "R", "S", "I", "O", "N", " ", "1", ",", " ", "2", ",", " ", "3", ",", " ", "0">>

\* ------------------------------------------------------------ escape_string

\* the inverse rule: two double-quotes are a double-quote, a backslash and the
\* character after it are the character the pair stands for
RECURSIVE Unescape(_)
Unescape(t) ==
    IF t = <<>> THEN <<>>
    ELSE IF Len(t) >= 2 /\ t[1] = "\"" /\ t[2] = "\""
    THEN <<"\"">> \o Unescape(SubSeq(t, 3, Len(t)))
    ELSE IF Len(t) >= 2 /\ t[1] = "\\"
    THEN <<(CASE t[2] = "n" -> "\n"
              [] t[2] = "t" -> "\t"
              [] t[2] = "r" -> "\r"
              [] OTHER -> t[2])>> \o Unescape(SubSeq(t, 3, Len(t)))
    ELSE <<t[1]>> \o Unescape(Tail(t))

SpecialChars ==
    {"\"", "'", "\\", "\n", "\t", "\r"}

\* C12: escape_string is reversible: the inverse rule applied to
\* escape_string(s) gives back s; a double-quote becomes two double-quotes, a
\* backslash two backslashes, and a string with none of the special characters
\* is returned unchanged.
C12_EscapeReversible ==
    is_some(esc_out) =>
        /\ Unescape(unwrap(esc_out)) = esc_in
        /\ esc_in = <<"\"">> => unwrap(esc_out) = <<"\"", "\"">>
        /\ esc_in = <<"\\">> => unwrap(esc_out) = <<"\\", "\\">>
        /\ (\A i \in 1..Len(esc_in) : esc_in[i] \notin SpecialChars)
                => unwrap(esc_out) = esc_in
        /\ Len(unwrap(esc_out))
                = Len(esc_in)
                    + Cardinality({i \in 1..Len(esc_in) : esc_in[i] \in SpecialChars})

\* C12 happens: a backslash, the letter n and a line feed were escaped, and the
\* backslash before the n is written apart from the line feed after it.
C12_Witness ==
    /\ esc_in = <<"\\", "n", "\n">>
    /\ is_some(esc_out)
    /\ unwrap(esc_out) = <<"\\", "\\", "n", "\\", "n">>

\* ------------------------------------------------- the order of the lines

\* a resource with the contents of r whose maps iterate in the orders of the seeds
Reseeded(r, properties_seed, version_info_seed) ==
    [r EXCEPT !.properties_seed = properties_seed,
              !.version_info_seed = version_info_seed]

\* C13: write_resource_file applied to the same contents (properties,
\* version-info fields, icon, manifest and language) writes the same text, with
\* the version-info lines and the VALUE lines in the same order, whatever the
\* iteration order of the two maps.
C13_SameTextForSameContents ==
    is_ok(rc_out) =>
        \A ps \in HashSeeds, vs \in HashSeeds :
            write_resource_file_text(Reseeded(res, ps, vs)) = rc_out.value

\* ------------------------------------------------------ the compiler driver

\* compile() has been entered
Compiling ==
    pc \in {"compile_with_toolkit", "returned"}

Writes ==
    {i \in 1..Len(effects) : effects[i].op = "write"}

Spawns ==
    {i \in 1..Len(effects) : effects[i].op = "spawn"}

\* the path of the resource file compile generates, for the output directories
\* of the builds
ExpectedRcPath ==
    CASE res.output_directory = OUT_DIR -> <<"C", ":", "\\", "o", "u", "t", "\\", "r", "e", "s", "o", "u", "r", "c", "e", ".", "r", "c">>
      [] res.output_directory = GIVEN_DIR -> <<"g", "e", "n", "\\", "r", "e", "s", "o", "u", "r", "c", "e", ".", "r", "c">>
      [] OTHER -> <<".", "\\", "r", "e", "s", "o", "u", "r", "c", "e", ".", "r", "c">>

\* the last argument of a child process: the input file
InputArg(i) ==
    effects[i].args[Len(effects[i].args)]

\* C14: when set_resource_file has been called, compile() does not write
\* <output_dir>/resource.rc and passes exactly the supplied path to the resource
\* compiler; when it has not, compile() writes <output_dir>/resource.rc before
\* any child process is started and passes that path.
C14_GivenResourceFile ==
    Compiling =>
        IF is_some(res.rc_file)
        THEN /\ Writes = {}
             /\ \A i \in Spawns : InputArg(i) = GIVEN_RC
        ELSE /\ pc = "compile_with_toolkit" => Writes # {}
             /\ \A w \in Writes :
                    /\ effects[w].path = ExpectedRcPath
                    /\ effects[w].text = write_resource_file_text(res)
             /\ \A i \in Spawns :
                    /\ \E w \in Writes : w < i
                    /\ InputArg(i) = ExpectedRcPath

\* C14 happens: a resource file was given, compile() returned Ok, nothing was
\* written and the compiler was started on the given file.
C14_Witness ==
    /\ pc = "returned"
    /\ is_ok(compile_result)
    /\ res.rc_file = Some(GIVEN_RC)
    /\ Writes = {}
    /\ \E i \in Spawns : InputArg(i) = GIVEN_RC

\* the lines printed for cargo
Directives ==
    {i \in 1..Len(effects) :
        effects[i].op = "println" /\ starts_with(effects[i].line, <<"c", "a", "r", "g", "o", ":">>)}

\* C15: on an msvc build the link-search directive and then the dylib directive
\* are printed only after the resource file was written (if it is generated)
\* and the resource compiler exited with status zero; the compiler is never
\* started when the write fails; on a failure compile() returns an error,
\* nothing is tried again and neither directive is printed.
C15_MsvcPipeline ==
    (target_env = "msvc" /\ Compiling) =>
        /\ \A d \in Directives :
                \E c \in Spawns :
                    /\ c < d
                    /\ effects[c].outcome = "exit_0"
                    /\ res.rc_file = None => \E w \in Writes : w < c
        /\ \A d \in Directives :
                \/ effects[d].line = <<"c", "a", "r", "g", "o", ":", "r", "u", "s", "t", "c", "-", "l", "i", "n", "k", "-", "s", "e", "a", "r", "c", "h", "=", "n", "a", "t", "i", "v", "e", "=">> \o res.output_directory
                        /\ \A e \in Directives : e >= d
                \/ effects[d].line = <<"c", "a", "r", "g", "o", ":", "r", "u", "s", "t", "c", "-", "l", "i", "n", "k", "-", "l", "i", "b", "=", "d", "y", "l", "i", "b", "=", "r", "e", "s", "o", "u", "r", "c", "e">>
                        /\ d - 1 \in Directives /\ \A e \in Directives : e <= d
        /\ Cardinality(Spawns) <= 1
        /\ Cardinality(Writes) <= 1
        /\ (res.rc_file = None /\ Writes = {}) => Spawns = {}
        /\ (\E c \in Spawns : effects[c].outcome # "exit_0")
                => (Directives = {} /\ (pc = "returned" => ~is_ok(compile_result)))
        /\ pc = "returned" =>
                IF is_ok(compile_result)
                THEN Cardinality(Directives) = 2
                ELSE Directives = {}

\* C15 happens: the resource file was written, the compiler exited with zero,
\* both directives were printed in order and compile() returned Ok.
C15_Witness ==
    /\ target_env = "msvc"
    /\ pc = "returned"
    /\ is_ok(compile_result)
    /\ Len(effects) = 6
    /\ effects[1].op = "write"
    /\ effects[2].op = "spawn" /\ effects[2].outcome = "exit_0"
    /\ effects[5].line = <<"c", "a", "r", "g", "o", ":", "r", "u", "s", "t", "c", "-", "l", "i", "n", "k", "-", "s", "e", "a", "r", "c", "h", "=", "n", "a", "t", "i", "v", "e", "=">> \o OUT_DIR
    /\ effects[6].line = <<"c", "a", "r", "g", "o", ":", "r", "u", "s", "t", "c", "-", "l", "i", "n", "k", "-", "l", "i", "b", "=", "d", "y", "l", "i", "b", "=", "r", "e", "s", "o", "u", "r", "c", "e">>

\* the build script was aborted by a panic
Panics ==
    {i \in 1..Len(effects) : effects[i].op = "panic"}

\* the child processes started with the archiver's path
Archivers ==
    {i \in Spawns : effects[i].program \in {AR_EXE, GIVEN_AR}}

\* C16: on a gnu build the build script gets to compile(): the resource compiler
\* runs first and the archiver only after the compiler exited with status
\* zero, both with the toolchain's directory as working directory; a non-zero
\* exit of either stage makes compile() return an error naming that stage, and
\* the link-search and static-library directives are printed only after both
\* stages succeeded.
C16_GnuProtocol ==
    target_env = "gnu" =>
        /\ Panics = {}
        /\ \A i \in Spawns : is_some(effects[i].cwd)
        /\ \A a \in Archivers :
                \E c \in Spawns \ Archivers : c < a /\ effects[c].outcome = "exit_0"
        /\ \A d \in Directives :
                /\ \E c \in Spawns \ Archivers : c < d /\ effects[c].outcome = "exit_0"
                /\ \E a \in Archivers : a < d /\ effects[a].outcome = "exit_0"
        /\ (pc = "returned" /\ \E i \in Spawns : effects[i].outcome = "exit_1")
                => /\ ~is_ok(compile_result)
                   /\ compile_result.error.message
                        = (IF \E a \in Archivers : effects[a].outcome = "exit_1"
                           THEN "Could not create static library for resource file"
                           ELSE "Could not compile resource file")

\* C17: on a build that is neither msvc nor gnu nothing panics during
\* construction, and compile() returns the error of the unsupported toolchain
\* without starting a child process or printing a directive.
C17_UnsupportedToolchain ==
    target_env = "other" =>
        /\ Panics = {}
        /\ Spawns = {}
        /\ Directives = {}
        /\ pc = "returned" =>
                compile_result
                    = IoError("Can only compile resource file when target_env is gnu or msvc")

\* ------------------------------------------------------------- the icon line

\* a line that binds an id to an icon file
IsIconLine(line) ==
    \E k \in 1..(Len(line) - 6) : SubSeq(line, k, k + 6) = <<" ", "I", "C", "O", "N", " ", "\"">>

IconLines(text) ==
    {i \in 1..Len(text) : IsIconLine(text[i])}

\* the icon paths of the builds, as write_resource_file is to escape them
EscapedIconPath(path) ==
    IF path = ICON_B THEN <<"r", "e", "s", "\\", "\\", "b", ".", "i", "c", "o">> ELSE path

\* C18: write_resource_file writes an icon line exactly when an icon path has
\* been set; the line binds the most recently set path to the id of the most
\* recent set_icon_with_id call, or to 1 if there was none; a later set_icon
\* replaces the path and keeps the id set earlier.
C18_IconLine ==
    is_ok(rc_out) =>
        LET text == rc_out.value IN
        IF icon_calls.last = "none" THEN IconLines(text) = {}
        ELSE \E i \in 1..Len(text) :
                /\ IconLines(text) = {i}
                /\ text[i] = (IF is_some(icon_calls.id) THEN unwrap(icon_calls.id)
                              ELSE <<"1">>)
                             \o <<" ", "I", "C", "O", "N", " ", "\"">>
                             \o EscapedIconPath(unwrap(icon_calls.path)) \o <<"\"">>

\* C18 happens: set_icon was called after a set_icon_with_id with the id 2, and
\* the file written binds the new path to the id 2.
C18_Witness ==
    /\ is_ok(rc_out)
    /\ icon_calls = [last |-> "set_icon", path |-> Some(ICON_B), id |-> Some(ICON_ID)]
    /\ \E i \in 1..Len(rc_out.value) : rc_out.value[i] = <<"2", " ", "I", "C", "O", "N", " ", "\"", "r", "e", "s", "\\", "\\", "b", ".", "i", "c", "o", "\"">>

====
